---- MODULE Spec2Model ----
(***************************************************************************)
(* misskey-gh-notify: a Koa server that receives GitHub webhooks on        *)
(* POST /github, checks the source address and the x-hub-signature, emits  *)
(* the event on an EventEmitter and lets the registered handlers publish   *)
(* notes to Misskey (src/src/index.ts).                                    *)
(*                                                                         *)
(* Input domain.  Payloads follow GitHub's schema for their event type,    *)
(* and what the schema allows to be empty or null is varied (a root commit *)
(* has no parents, a review body may be null, "" or absent, a push may     *)
(* carry no commits); a request with an empty body or a content type that  *)
(* is not JSON delivers the object {}, which carries none of the objects   *)
(* a handler dereferences.  HOOK_SECRET is configured.                     *)
(***************************************************************************)
EXTENDS Integers, Sequences, FiniteSets, Bags, TLC

(* ------------------------------ bounds -------------------------------- *)
\* parent-status lookups (GET) that may be pending at once
MaxLookups == 2
\* publish calls (POST) that may be pending at once
MaxPublishes == 1
\* commits carried by a push payload
MaxCommits == 2

(* --------------------------- JavaScript values ------------------------ *)
\* the value undefined (absent header, absent field)
Undef == "<undefined>"
\* the value null
Null == "<null>"

(* ------------------------------ addresses ----------------------------- *)
\* new Netmask('a.b.c.d/bits')
Netmask(a, b, c, d, bits) == [base |-> <<a, b, c, d>>, bitmask |-> bits]

allowedIPBlocks ==
    << Netmask(192, 30, 252, 0, 22),
       Netmask(185, 199, 108, 0, 22),
       Netmask(140, 82, 112, 0, 20),
       Netmask(143, 55, 64, 0, 20) >>

\* ctx.ip as a string in dotted-quad form, or in another form (IPv6 "::1")
V4(a, b, c, d) == [form |-> "v4", quad |-> <<a, b, c, d>>]
V6Loopback == [form |-> "v6", quad |-> <<0, 0, 0, 1>>]

\* the leading 24 bits of a dotted quad
Hi24(q) == (q[1] * 256 + q[2]) * 256 + q[3]

\* netmask's ip2long throws on anything that is not a dotted quad
ip2longThrows(ip) == ip.form # "v4"

\* Netmask.prototype.contains for a dotted quad:
\* (ip2long(ip) & maskLong) === (netLong & maskLong)
contains(block, ip) ==
    IF block.bitmask <= 24
    THEN Hi24(ip.quad) \div (2 ^ (24 - block.bitmask))
           = Hi24(block.base) \div (2 ^ (24 - block.bitmask))
    ELSE /\ Hi24(ip.quad) = Hi24(block.base)
         /\ ip.quad[4] \div (2 ^ (32 - block.bitmask))
              = block.base[4] \div (2 ^ (32 - block.bitmask))

\* allowedIPBlocks.some(block => block.contains(ip))
isAllowed(ip) ==
    \E i \in 1..Len(allowedIPBlocks) : contains(allowedIPBlocks[i], ip)

(* ------------------------------ payloads ------------------------------ *)
\* The events the program has a handler for, in registration order.
SupportedEvents ==
    << "status", "push", "issues", "issue_comment", "release", "watch",
       "fork", "pull_request", "pull_request_review_comment",
       "pull_request_review", "discussion", "discussion_comment" >>

SupportedSet == { SupportedEvents[i] : i \in 1..Len(SupportedEvents) }

\* A parsed JSON document: the fields the handlers branch on.  shape names
\* the GitHub schema the document follows ("empty" is the object {}).
Blank ==
    [shape |-> "empty", state |-> Undef, sha |-> Undef, parents |-> <<>>,
     ref |-> Undef, commits |-> <<>>, action |-> Undef, merged |-> FALSE,
     body |-> Undef]

Doc(shape) == [Blank EXCEPT !.shape = shape]

\* The nested objects a document carries, by its schema: the members the
\* handlers dereference (event.sender, event.issue, ...).  The object {}
\* carries none, so reading a property of one of them is a TypeError.
MembersOf(shape) ==
    CASE shape = "status" -> {"sender", "commit"}
      [] shape = "push" -> {"sender", "pusher", "commits"}
      [] shape = "issues" -> {"sender", "issue"}
      [] shape = "issue_comment" -> {"sender", "issue", "comment"}
      [] shape = "release" -> {"sender", "release"}
      [] shape = "watch" -> {"sender"}
      [] shape = "fork" -> {"sender", "forkee"}
      [] shape = "pull_request" -> {"sender", "pull_request"}
      [] shape = "pull_request_review_comment" ->
            {"sender", "pull_request", "comment"}
      [] shape = "pull_request_review" -> {"sender", "pull_request", "review"}
      [] shape = "discussion" -> {"sender", "discussion"}
      [] shape = "discussion_comment" -> {"sender", "discussion", "comment"}
      [] shape = "ping" -> {"sender"}
      [] OTHER -> {}

\* event.member is an object (not undefined)
Has(event, member) == member \in MembersOf(event.shape)

Shas == {"c1", "c2"}

\* a failing status names its commit and the commit's parents (none for a
\* root commit); the other states are not looked at any further
StatusPayloads ==
    { [Doc("status") EXCEPT !.state = s, !.sha = c, !.parents = ps] :
        s \in {"failure", "error"}, c \in Shas, ps \in {<<>>, <<"p0">>} }
    \cup
    { [Doc("status") EXCEPT !.state = s, !.sha = "c1", !.parents = <<"p0">>] :
        s \in {"success", "pending"} }

CommitLists == { [i \in 1..n |-> i] : n \in 0..MaxCommits }

PushPayloads ==
    { [Doc("push") EXCEPT !.ref = r, !.commits = cs] :
        r \in {"refs/heads/develop", "refs/heads/main"}, cs \in CommitLists }

ActionsOf(shape) ==
    CASE shape = "issues" -> {"opened", "closed", "reopened", "edited"}
      [] shape = "issue_comment" -> {"created", "deleted"}
      [] shape = "release" -> {"published", "created"}
      [] shape = "watch" -> {"started"}
      [] shape = "fork" -> {Undef}
      [] shape = "pull_request" -> {"opened", "reopened", "closed", "edited"}
      [] shape = "pull_request_review_comment" -> {"created", "deleted"}
      [] shape = "pull_request_review" -> {"submitted", "edited", "dismissed"}
      [] shape = "discussion" ->
            {"created", "closed", "reopened", "answered", "edited"}
      [] shape = "discussion_comment" -> {"created", "deleted"}
      [] OTHER -> {Undef}

ReviewBodies == {Undef, Null, "", "nice"}

PayloadsOf(e) ==
    { [Doc(e) EXCEPT !.action = a, !.merged = m, !.body = b] :
        a \in ActionsOf(e),
        m \in IF e = "pull_request" THEN BOOLEAN ELSE {FALSE},
        b \in IF e = "pull_request_review" THEN ReviewBodies ELSE {Undef} }

ActionPayloads == UNION { PayloadsOf(e) : e \in SupportedSet \ {"status", "push"} }

\* event names no handler is ever registered for
UnknownEvents == {"ping", "error", Undef}

Payloads == StatusPayloads \cup PushPayloads \cup ActionPayloads

(* ----------------------------- raw bodies ----------------------------- *)
\* A raw body is a sequence of byte runs: the compact serialisation of a
\* document (what JSON.stringify prints), a whitespace byte, or a byte that
\* is not JSON.
DocBytes(d) == [t |-> "doc", doc |-> d]
WS == [t |-> "ws", doc |-> Blank]
Junk == [t |-> "junk", doc |-> Blank]

\* JSON.stringify(value)
JSONstringify(d) == << DocBytes(d) >>

StripWS(raw) == SelectSeq(raw, LAMBDA k : k.t # "ws")

\* co-body's strict JSON parse: "" is {}, whitespace between tokens is
\* skipped, anything else than one document is a SyntaxError
JSONparses(raw) ==
    \/ Len(raw) = 0
    \/ Len(StripWS(raw)) = 1 /\ StripWS(raw)[1].t = "doc"

JSONparse(raw) == IF Len(raw) = 0 THEN Blank ELSE StripWS(raw)[1].doc

\* koa-bodyparser: a JSON content type is parsed (a parse error is thrown),
\* any other enabled-less type leaves ctx.request.body = {}
bodyParserThrows(req) == req.ctype = "json" /\ ~JSONparses(req.raw)

requestBody(req) == IF req.ctype = "json" THEN JSONparse(req.raw) ELSE Blank

(* ----------------------------- signatures ----------------------------- *)
\* 'sha1=' + hex(HMAC-SHA1(key, bytes)); the MAC is taken as collision-free,
\* so a digest is identified by its key and its input bytes
HubSignature(key, bytes) == [algo |-> "sha1=", key |-> key, data |-> bytes]
NoSignature == [algo |-> Undef, key |-> Undef, data |-> <<>>]
Sha256Signature(key, bytes) ==
    [algo |-> "sha256=", key |-> key, data |-> bytes]

Keys == {"k1", "k2"}


(* ------------------------------ publisher ----------------------------- *)
\* the text of a note: the template chosen and the payload fields put in it
Text(tpl, args) == [tpl |-> tpl, args |-> args]

\* post() ignoring its home argument
post_alwaysHome(text, home) ==
    [text |-> text, visibility |-> "home", noExtractMentions |-> TRUE,
     noExtractHashtags |-> TRUE]

\* post(text, home = true): the JSON body of the POST to /api/notes/create
post(text, home) ==
    [text |-> text,
     visibility |-> IF home THEN "home" ELSE "public",
     noExtractMentions |-> TRUE,
     noExtractHashtags |-> TRUE]

(* ------------------------------ handlers ------------------------------ *)
\* What one synchronous run of a listener does: it throws, or it returns
\* after issuing the GETs and POSTs listed.
Effect(threw, gets, posts) == [threw |-> threw, gets |-> gets, posts |-> posts]
Nothing == Effect(FALSE, <<>>, <<>>)
Throws == Effect(TRUE, <<>>, <<>>)
Publish(text, home) == Effect(FALSE, <<>>, << post(text, home) >>)

Reverse(s) == [i \in 1..Len(s) |-> s[Len(s) + 1 - i]]

\* handler.on('status'): the synchronous part, up to fetch(...)
on_status(event) ==
    IF event.state \in {"error", "failure"}
    THEN IF ~Has(event, "commit") \/ Len(event.parents) = 0
         THEN Throws   \* commit or parent is undefined: a TypeError
         ELSE Effect(FALSE, << <<event.parents[1], "/statuses">> >>, <<>>)
    ELSE Nothing

\* the handler listing the commits in payload order (no reverse())
on_push_unreversed(event) ==
    IF event.ref = "refs/heads/develop"
    THEN IF ~Has(event, "pusher") \/ ~Has(event, "commits")
         THEN Throws
         ELSE Publish(Text("Pushed by", event.commits), TRUE)
    ELSE Nothing

\* handler.on('push')
on_push(event) ==
    IF event.ref = "refs/heads/develop"
    THEN IF ~Has(event, "pusher") \/ ~Has(event, "commits")
         THEN Throws   \* pusher.name or commits.length of undefined
         ELSE Publish(Text("Pushed by", Reverse(event.commits)), TRUE)
    ELSE Nothing

\* handler.on('issues')
on_issues(event) ==
    IF event.action \in {"opened", "closed", "reopened"}
    THEN IF ~Has(event, "issue")
         THEN Throws   \* issue.number of undefined
         ELSE CASE event.action = "opened" ->
                      Publish(Text("Issue opened", <<>>), TRUE)
                [] event.action = "closed" ->
                      Publish(Text("Issue closed", <<>>), TRUE)
                [] event.action = "reopened" ->
                      Publish(Text("Issue reopened", <<>>), TRUE)
    ELSE Nothing

\* handler.on('issue_comment')
on_issue_comment(event) ==
    IF event.action = "created"
    THEN IF ~Has(event, "issue") \/ ~Has(event, "comment")
         THEN Throws   \* issue.title or comment.user of undefined
         ELSE Publish(Text("Commented on", <<>>), TRUE)
    ELSE Nothing

\* handler.on('release')
on_release(event) ==
    IF event.action = "published"
    THEN IF ~Has(event, "release")
         THEN Throws   \* release.tag_name of undefined
         ELSE Publish(Text("NEW RELEASE", <<>>), TRUE)
    ELSE Nothing

\* handler.on('watch')
on_watch(event) ==
    IF ~Has(event, "sender")
    THEN Throws   \* sender.login of undefined, before post() is called
    ELSE Publish(Text("Starred by", <<>>), FALSE)

\* handler.on('fork')
on_fork(event) ==
    IF ~Has(event, "forkee") \/ ~Has(event, "sender")
    THEN Throws   \* repo.html_url or sender.login of undefined
    ELSE Publish(Text("Forked by", <<>>), TRUE)

\* the handler announcing every closed pull request as merged
on_pull_request_alwaysMerged(event) ==
    IF event.action \in {"opened", "reopened", "closed"}
    THEN IF ~Has(event, "pull_request")
         THEN Throws
         ELSE CASE event.action = "opened" ->
                      Publish(Text("New Pull Request", <<>>), TRUE)
                [] event.action = "reopened" ->
                      Publish(Text("Pull Request Reopened", <<>>), TRUE)
                [] event.action = "closed" ->
                      Publish(Text("Pull Request Merged!", <<>>), TRUE)
    ELSE Nothing

\* handler.on('pull_request')
on_pull_request(event) ==
    IF event.action \in {"opened", "reopened", "closed"}
    THEN IF ~Has(event, "pull_request")
         THEN Throws   \* pr.title or pr.merged of undefined
         ELSE CASE event.action = "opened" ->
                      Publish(Text("New Pull Request", <<>>), TRUE)
                [] event.action = "reopened" ->
                      Publish(Text("Pull Request Reopened", <<>>), TRUE)
                [] event.action = "closed" ->
                      IF event.merged
                      THEN Publish(Text("Pull Request Merged!", <<>>), TRUE)
                      ELSE Publish(Text("Pull Request Closed", <<>>), TRUE)
    ELSE Nothing

\* handler.on('pull_request_review_comment')
on_pull_request_review_comment(event) ==
    IF event.action = "created"
    THEN IF ~Has(event, "pull_request") \/ ~Has(event, "comment")
         THEN Throws   \* pr.title or comment.user of undefined
         ELSE Publish(Text("Review commented on", <<>>), TRUE)
    ELSE Nothing

\* the handler without its guard on null and empty review bodies
on_pull_request_review_unguarded(event) ==
    IF ~Has(event, "review")
    THEN Throws
    ELSE IF event.body = Undef
         THEN Nothing
         ELSE IF event.action = "submitted"
              THEN IF ~Has(event, "pull_request")
                   THEN Throws
                   ELSE Publish(Text("Review submitted", <<event.body>>),
                                TRUE)
              ELSE Nothing

\* handler.on('pull_request_review')
on_pull_request_review(event) ==
    IF ~Has(event, "review")
    THEN Throws   \* the guard reads review.body of undefined
    ELSE IF event.body = Undef \/ event.body = Null \/ event.body = ""
         THEN Nothing
         ELSE IF event.action = "submitted"
              THEN IF ~Has(event, "pull_request")
                   THEN Throws   \* pr.title of undefined
                   ELSE Publish(Text("Review submitted", <<event.body>>),
                                TRUE)
              ELSE Nothing

\* the handler whose default branch publishes instead of returning
on_discussion_defaultPublishes(event) ==
    IF ~Has(event, "discussion")
    THEN Throws
    ELSE CASE event.action = "answered" ->
                 Publish(Text("Discussion marked answer",
                              <<"answer_html_url">>), TRUE)
           [] event.action = "closed" ->
                 Publish(Text("Discussion closed", <<"html_url">>), TRUE)
           [] event.action = "reopened" ->
                 Publish(Text("Discussion reopened", <<"html_url">>), TRUE)
           [] OTHER ->
                 Publish(Text("Discussion opened", <<"html_url">>), TRUE)

\* handler.on('discussion')
on_discussion(event) ==
    IF event.action \in {"created", "closed", "reopened", "answered"}
    THEN IF ~Has(event, "discussion")
         THEN Throws   \* discussion.html_url of undefined, in the switch
         ELSE CASE event.action = "created" ->
                      Publish(Text("Discussion opened", <<"html_url">>),
                              TRUE)
                [] event.action = "closed" ->
                      Publish(Text("Discussion closed", <<"html_url">>),
                              TRUE)
                [] event.action = "reopened" ->
                      Publish(Text("Discussion reopened", <<"html_url">>),
                              TRUE)
                [] event.action = "answered" ->
                      Publish(Text("Discussion marked answer",
                                   <<"answer_html_url">>), TRUE)
    ELSE Nothing

\* handler.on('discussion_comment')
on_discussion_comment(event) ==
    IF event.action = "created"
    THEN IF ~Has(event, "discussion") \/ ~Has(event, "comment")
         THEN Throws   \* discussion.title or comment.user of undefined
         ELSE Publish(Text("Commented on", <<>>), TRUE)
    ELSE Nothing

\* the listener function registered under a name
listener(name, event) ==
    CASE name = "status" -> on_status(event)
      [] name = "push" -> on_push(event)
      [] name = "issues" -> on_issues(event)
      [] name = "issue_comment" -> on_issue_comment(event)
      [] name = "release" -> on_release(event)
      [] name = "watch" -> on_watch(event)
      [] name = "fork" -> on_fork(event)
      [] name = "pull_request" -> on_pull_request(event)
      [] name = "pull_request_review_comment" ->
            on_pull_request_review_comment(event)
      [] name = "pull_request_review" -> on_pull_request_review(event)
      [] name = "discussion" -> on_discussion(event)
      [] name = "discussion_comment" -> on_discussion_comment(event)

(* ---------------------- status: the parent lookup --------------------- *)
\* How fetch(`${parent.url}/statuses`).then(response => response.json())
\* settles: the fetch rejects, the body is not JSON, or the body is a JSON
\* value (null, an object, or an array of statuses).
LookupResult(outcome, states) == [outcome |-> outcome, states |-> states]

LookupResults ==
    { LookupResult(o, <<>>) : o \in {"neterr", "badjson", "null", "object"} }
    \cup { LookupResult("array", ss) :
             ss \in { <<>>, <<"failure">>, <<"error">>, <<"success">>,
                      <<"pending">>, <<"success", "failure">> } }

\* the promise chain reaches .catch: fetch or response.json() rejected, or
\* parentStatuses[0] was read from null
lookupCaught(result) == result.outcome \in {"neterr", "badjson", "null"}

\* parentStatuses[0]?.state
parentState(result) ==
    IF result.outcome = "array" /\ Len(result.states) > 0
    THEN result.states[1]
    ELSE Undef

\* the callback without its else: a parent that failed gets both notes
thenParentStatuses_both(event, result) ==
    IF lookupCaught(result)
    THEN <<>>
    ELSE IF parentState(result) = "failure" \/ parentState(result) = "error"
         THEN << post(Text("BUILD STILL FAILED", <<event.sha>>), TRUE),
                 post(Text("BUILD FAILED", <<event.sha>>), TRUE) >>
         ELSE << post(Text("BUILD FAILED", <<event.sha>>), TRUE) >>

\* the .then(parentStatuses => ...) callback and the .catch after it: the
\* notes published once the lookup has settled
thenParentStatuses(event, result) ==
    IF lookupCaught(result)
    THEN <<>>
    ELSE IF parentState(result) = "failure" \/ parentState(result) = "error"
         THEN << post(Text("BUILD STILL FAILED", <<event.sha>>), TRUE) >>
         ELSE << post(Text("BUILD FAILED", <<event.sha>>), TRUE) >>


(* ---------------------------- configuration --------------------------- *)
\* process.env: HOOK_SECRET and one HOOK_<EVENT> flag per supported event
\* (hooks is keyed by the event name: hooks["status"] is HOOK_STATUS)
FlagValues == <<"false", "TRUE", Undef>>

Flag(i, on) == IF on THEN "true" ELSE FlagValues[(i % 3) + 1]

EnvOf(secret, enabled) ==
    [HOOK_SECRET |-> secret,
     hooks |-> [e \in SupportedSet |->
                  LET i == CHOOSE j \in 1..Len(SupportedEvents) :
                                SupportedEvents[j] = e
                  IN Flag(i, i \in enabled)]]

\* the configurations explored: every hook on, the odd ones on (status,
\* issues, release, fork, ...) and the even ones on (push, issue_comment,
\* watch, ...); a hook that is off has the flag "false", "TRUE" or none
Envs ==
    { EnvOf("k1", 1..Len(SupportedEvents)),
      EnvOf("k2", { i \in 1..Len(SupportedEvents) : i % 2 = 1 }),
      EnvOf("k1", { i \in 1..Len(SupportedEvents) : i % 2 = 0 }) }

\* a hook counts as enabled when its flag is set at all (a truthiness test)
isHookEnabled_truthy(e, hookName) == e.hooks[hookName] # Undef

\* isHookEnabled(hookName): process.env[hookName] === 'true'
isHookEnabled(e, hookName) == e.hooks[hookName] = "true"

\* discussion_comment registered under the flag of discussion
registrations_copyPaste(e) ==
    [name \in SupportedSet |->
        IF isHookEnabled(e, IF name = "discussion_comment"
                            THEN "discussion" ELSE name)
        THEN <<name>>
        ELSE <<>>]

\* the listeners of the EventEmitter after the module has loaded:
\* if (isHookEnabled('HOOK_X')) handler.on('x', ...)
registrations(e) ==
    [name \in SupportedSet |->
        IF isHookEnabled(e, name) THEN <<name>> ELSE <<>>]

(* ------------------------------ dispatch ------------------------------ *)
Run(threw, invoked, gets, posts) ==
    [threw |-> threw, invoked |-> invoked, gets |-> gets, posts |-> posts]

\* EventEmitter calls the listeners of a name in order; a throw ends the run
RECURSIVE runListeners(_, _, _)
runListeners(ls, event, acc) ==
    IF Len(ls) = 0
    THEN acc
    ELSE LET eff == listener(Head(ls), event)
             now == Run(eff.threw, Append(acc.invoked, Head(ls)),
                        acc.gets \o eff.gets, acc.posts \o eff.posts)
         IN IF eff.threw THEN now ELSE runListeners(Tail(ls), event, now)

listenersOf(h, name) == IF name \in DOMAIN h THEN h[name] ELSE <<>>

\* dispatch on what the payload looks like instead of on the header
emit_byPayload(h, name, event) ==
    runListeners(listenersOf(h, event.shape), event,
                 [threw |-> FALSE, invoked |-> <<>>, gets |-> <<>>,
                  posts |-> <<>>])

\* handler.emit(ghHeader, ctx.request.body); emitting 'error' with no
\* listener for it throws ERR_UNHANDLED_ERROR
emit(h, name, event) ==
    IF name = "error" /\ Len(listenersOf(h, name)) = 0
    THEN Run(TRUE, <<>>, <<>>, <<>>)
    ELSE runListeners(listenersOf(h, name), event, Run(FALSE, <<>>, <<>>, <<>>))

(* ----------------------------- front door ----------------------------- *)
Request(ip, route, ctype, raw, sig, event) ==
    [ip |-> ip, route |-> route, ctype |-> ctype, raw |-> raw, sig |-> sig,
     event |-> event]

\* what serving a request synchronously comes to
Served(status, body, ipcheck, sigcheck, run) ==
    [status |-> status, body |-> body, ipcheck |-> ipcheck,
     sigcheck |-> sigcheck, threw |-> run.threw, invoked |-> run.invoked,
     gets |-> run.gets, posts |-> run.posts]

NoRun == Run(FALSE, <<>>, <<>>, <<>>)

\* const hash = createHmac('sha1', HOOK_SECRET)
\*                .update(JSON.stringify(ctx.request.body)).digest('hex')
\* and the value the header is compared with, `sha1=${hash}`
expectedSignature(e, req) ==
    HubSignature(e.HOOK_SECRET, JSONstringify(requestBody(req)))

\* the route awaiting what its listener started: no status is set while a
\* GET or POST of the request is pending
github_awaitsOutbound(e, h, req) ==
    IF req.sig.algo = Undef
    THEN Served(400, "Invalid or missing GitHub signature", "allow",
                "missing", NoRun)
    ELSE IF req.sig = expectedSignature(e, req)
         THEN LET run == emit(h, req.event, requestBody(req))
              IN IF run.threw
                 THEN Served(500, "Internal Server Error", "allow", "match",
                             run)
                 ELSE IF Len(run.gets) + Len(run.posts) > 0
                      THEN Served(0, "", "allow", "match", run)
                      ELSE Served(204, "", "allow", "match", run)
         ELSE Served(400, "Invalid GitHub signature", "allow", "mismatch",
                     NoRun)

\* router.post('/github', ctx => ...)
github(e, h, req) ==
    IF req.sig.algo = Undef
    THEN Served(400, "Invalid or missing GitHub signature", "allow",
                "missing", NoRun)
    ELSE IF req.sig = expectedSignature(e, req)
         THEN LET run == emit(h, req.event, requestBody(req))
              IN IF run.threw
                 THEN Served(500, "Internal Server Error", "allow", "match",
                             run)
                 ELSE Served(204, "", "allow", "match", run)
         ELSE Served(400, "Invalid GitHub signature", "allow", "mismatch",
                     NoRun)

\* the middleware stack without the address check
serve_noAddressCheck(e, h, req) ==
    IF bodyParserThrows(req)
    THEN Served(400, "Bad Request", "skipped", "skipped", NoRun)
    ELSE IF req.route # "POST /github"
    THEN Served(404, "Not Found", "allow", "skipped", NoRun)
    ELSE github(e, h, req)

\* the middleware stack in order: bodyParser(), the address check, the router
serve(e, h, req) ==
    IF bodyParserThrows(req)
    THEN Served(400, "Bad Request", "skipped", "skipped", NoRun)
    ELSE IF ip2longThrows(req.ip)
    THEN Served(500, "Internal Server Error", "throw", "skipped", NoRun)
    ELSE IF ~isAllowed(req.ip)
    THEN Served(403, "Access denied", "deny", "skipped", NoRun)
    ELSE IF req.route # "POST /github"
    THEN Served(404, "Not Found", "allow", "skipped", NoRun)
    ELSE github(e, h, req)


(* ------------------------------ requests ------------------------------ *)
\* sample addresses: first, last and inner addresses of the four blocks,
\* their outer neighbours, a private address and an IPv6 address
InsideAddresses ==
    { V4(192, 30, 252, 0), V4(192, 30, 255, 255), V4(185, 199, 110, 7),
      V4(140, 82, 127, 255), V4(143, 55, 64, 0) }

OutsideAddresses ==
    { V4(192, 30, 251, 255), V4(192, 31, 0, 0), V4(140, 82, 128, 0),
      V4(127, 0, 0, 1), V6Loopback }

GitHubAddress == V4(140, 82, 115, 7)

\* the x-github-event GitHub sends with a payload
EventOf(p) == p.shape

WatchPayload == [Doc("watch") EXCEPT !.action = "started"]
FailurePayload ==
    [Doc("status") EXCEPT !.state = "failure", !.sha = "c1",
                          !.parents = <<"p0">>]

\* Deliveries as GitHub makes them: JSON, signed over the raw bytes with the
\* shared secret, from a GitHub address; plus deliveries whose event name
\* has no handler, with a ping payload or a payload shaped like a star.
EventRequests(secret) ==
    { Request(GitHubAddress, "POST /github", "json", JSONstringify(p),
              HubSignature(secret, JSONstringify(p)), EventOf(p)) :
        p \in Payloads }
    \cup
    { Request(GitHubAddress, "POST /github", "json", JSONstringify(p),
              HubSignature(secret, JSONstringify(p)), ev) :
        ev \in UnknownEvents, p \in {Doc("ping"), WatchPayload} }

\* a body and its signature header: signed, unsigned, signed but not JSON
Variants(secret, p) ==
    { << JSONstringify(p), HubSignature(secret, JSONstringify(p)) >>,
      << JSONstringify(p), NoSignature >>,
      << <<DocBytes(p), Junk>>, HubSignature(secret, <<DocBytes(p), Junk>>) >> }

\* Requests from every sample address: stars from all of them, failing
\* statuses from the outside ones; to /github in every variant, to another
\* path signed.
AddressRequests(secret) ==
    { Request(ip, "POST /github", "json", v[1], v[2], "watch") :
        ip \in InsideAddresses \cup OutsideAddresses,
        v \in Variants(secret, WatchPayload) }
    \cup
    { Request(ip, "POST /github", "json", v[1], v[2], "status") :
        ip \in OutsideAddresses, v \in Variants(secret, FailurePayload) }
    \cup
    { Request(ip, "POST /other", "json", JSONstringify(WatchPayload),
              HubSignature(secret, JSONstringify(WatchPayload)), "watch") :
        ip \in InsideAddresses \cup OutsideAddresses }

\* layouts of a body: compact, with a whitespace byte before or after, with
\* a byte that is not JSON, empty
RawBodies(p) ==
    { JSONstringify(p), <<WS, DocBytes(p)>>, <<DocBytes(p), WS>>,
      <<DocBytes(p), Junk>>, <<>> }

\* signature headers: none, another algorithm, and sha1 under either key
\* over the raw bytes or over the re-serialised document
SignaturesFor(raw, doc) ==
    {NoSignature, Sha256Signature("k1", raw)}
    \cup { HubSignature(k, raw) : k \in Keys }
    \cup { HubSignature(k, JSONstringify(doc)) : k \in Keys }

\* Requests from a GitHub address whose body layout, content type and
\* signature vary.
SignedRequests ==
    UNION { { Request(GitHubAddress, "POST /github", "json", raw, sig,
                      "watch") :
                sig \in SignaturesFor(raw, JSONparse(raw)) } :
            raw \in RawBodies(WatchPayload) }
    \cup
    { Request(GitHubAddress, "POST /github", "text",
              JSONstringify(WatchPayload), sig, "watch") :
        sig \in SignaturesFor(JSONstringify(WatchPayload), Blank) }

Requests(secret) ==
    EventRequests(secret) \cup AddressRequests(secret) \cup SignedRequests

RequestsK1 == Requests("k1")
RequestsK2 == Requests("k2")

\* the requests explored under a configuration
RequestsOf(e) == IF e.HOOK_SECRET = "k1" THEN RequestsK1 ELSE RequestsK2

(* -------------------------------- state ------------------------------- *)
VARIABLES
    env,         \* process.env, read at startup
    handler,     \* the EventEmitter: event name -> its listeners in order
    last,        \* the step completed last and what it did
    lookups,     \* bag of pending parent-status GETs
    publishing,  \* number of pending publish POSTs
    proc         \* "running" or "crashed"

vars == <<env, handler, last, lookups, publishing, proc>>

NoRequest == Request(V4(0, 0, 0, 0), "", "", <<>>, NoSignature, Undef)
NoResult == LookupResult("none", <<>>)

\* a pending fetch(`${parent.url}/statuses`) and the request it belongs to,
\* whose response has been decided already
Lookup(req, url, served) ==
    [req |-> req, url |-> url, status |-> served.status, body |-> served.body]

BagOfSeq(s) ==
    [x \in { s[i] : i \in DOMAIN s } |->
        Cardinality({ i \in DOMAIN s : s[i] = x })]

\* a step that serves no request and settles no lookup
Step(op) ==
    [op |-> op, req |-> NoRequest,
     served |-> Served(0, "", "skipped", "skipped", NoRun),
     result |-> NoResult, logged |-> FALSE]

Init ==
    /\ env \in Envs
    /\ handler = registrations(env)
    /\ last = Step("start")
    /\ lookups = EmptyBag
    /\ publishing = 0
    /\ proc = "running"

\* A request arrives and is served up to its response; the fetches its
\* listener started stay pending.
Receive(req) ==
    /\ proc = "running"
    /\ \E served \in {serve(env, handler, req)} :
          /\ Len(served.gets) > 0 => BagCardinality(lookups) < MaxLookups
          /\ Len(served.posts) > 0 => publishing < MaxPublishes
          /\ last' = [op |-> "request", req |-> req, served |-> served,
                      result |-> NoResult, logged |-> FALSE]
          /\ lookups' = lookups (+)
                BagOfSeq([i \in DOMAIN served.gets |->
                            Lookup(req, served.gets[i], served)])
          /\ publishing' = publishing + Len(served.posts)
    /\ UNCHANGED <<env, handler, proc>>

\* the callbacks reading the commit of whichever status event is in flight
\* (a commit variable shared by the handler's runs)
LookupSettles_sharedCommit(t, result) ==
    /\ proc = "running"
    /\ BagIn(t, lookups)
    /\ \E other \in BagToSet(lookups) :
       \E posts \in {thenParentStatuses(requestBody(other.req), result)} :
          /\ Len(posts) > 0 => publishing < MaxPublishes
          /\ last' = [op |-> "lookup", req |-> t.req,
                      served |-> Served(t.status, t.body, "allow", "match",
                                        Run(FALSE, <<>>, <<>>, posts)),
                      result |-> result, logged |-> lookupCaught(result)]
          /\ publishing' = publishing + Len(posts)
    /\ lookups' = lookups (-) SetToBag({t})
    /\ UNCHANGED <<env, handler, proc>>

\* A pending lookup settles; the .then/.catch callbacks run.
LookupSettles(t, result) ==
    /\ proc = "running"
    /\ BagIn(t, lookups)
    /\ \E posts \in {thenParentStatuses(requestBody(t.req), result)} :
          /\ Len(posts) > 0 => publishing < MaxPublishes
          /\ last' = [op |-> "lookup", req |-> t.req,
                      served |-> Served(t.status, t.body, "allow", "match",
                                        Run(FALSE, <<>>, <<>>, posts)),
                      result |-> result, logged |-> lookupCaught(result)]
          /\ publishing' = publishing + Len(posts)
    /\ lookups' = lookups (-) SetToBag({t})
    /\ UNCHANGED <<env, handler, proc>>

\* A pending publish POST resolves (whatever the HTTP status).
PublishResolves ==
    /\ proc = "running"
    /\ publishing > 0
    /\ publishing' = publishing - 1
    /\ UNCHANGED <<env, handler, last, lookups, proc>>

\* A pending publish POST rejects: nothing awaits or catches the promise
\* post() returned, so the rejection is unhandled; the runtime then either
\* warns or ends the process, by its version and --unhandled-rejections.
PublishRejects ==
    /\ proc = "running"
    /\ publishing > 0
    /\ publishing' = publishing - 1
    /\ last' = Step("unhandledRejection")
    /\ proc' \in {"running", "crashed"}
    /\ UNCHANGED <<env, handler, lookups>>

Next ==
    \/ \E req \in RequestsOf(env) : Receive(req)
    \/ \E t \in BagToSet(lookups), result \in LookupResults :
          LookupSettles(t, result)
    \/ PublishResolves
    \/ PublishRejects

Spec == Init /\ [][Next]_vars

TypeOK ==
    /\ env \in Envs
    /\ proc \in {"running", "crashed"}
    /\ publishing \in 0..MaxPublishes
    /\ BagCardinality(lookups) <= MaxLookups


(* ============================== claims =============================== *)
\* the step completed last served a request
Requested == last.op = "request"

\* the address is in none of the four blocks (an IPv6 address is in none)
OutsideAllBlocks(ip) ==
    \/ ip.form # "v4"
    \/ \A i \in 1..Len(allowedIPBlocks) : ~contains(allowedIPBlocks[i], ip)

InsideSomeBlock(ip) == ~OutsideAllBlocks(ip)

Range(s) == { s[i] : i \in DOMAIN s }

\* a is b with one byte inserted
OneByteInserted(a, b) ==
    /\ Len(a) = Len(b) + 1
    /\ \E i \in 1..Len(a) :
          b = [j \in 1..Len(b) |-> IF j < i THEN a[j] ELSE a[j + 1]]

\* C1: a request from an address outside all four blocks is answered 403
\* 'Access denied' whatever its path, body and headers, and causes no
\* signature check, no handler run, no GET and no POST.
C1_OutsideIsDenied ==
    (Requested /\ OutsideAllBlocks(last.req.ip)) =>
        /\ last.served.status = 403
        /\ last.served.body = "Access denied"
        /\ last.served.sigcheck = "skipped"
        /\ last.served.invoked = <<>>
        /\ last.served.gets = <<>>
        /\ last.served.posts = <<>>

\* C2: POST /github from an allowed address: no signature header gives 400
\* 'Invalid or missing GitHub signature'; a header other than
\* 'sha1=' + hex(HMAC-SHA1(secret, body)) gives 400 'Invalid GitHub
\* signature'; neither runs a handler or makes an outbound call; the
\* matching header dispatches and gives 204.
C2_SignatureResponses ==
    (/\ Requested
     /\ InsideSomeBlock(last.req.ip)
     /\ last.req.route = "POST /github") =>
        LET sent == last.req.sig
            good == HubSignature(env.HOOK_SECRET, last.req.raw)
            quiet == /\ last.served.invoked = <<>>
                     /\ last.served.gets = <<>>
                     /\ last.served.posts = <<>>
        IN CASE sent = NoSignature ->
                  /\ last.served.status = 400
                  /\ last.served.body = "Invalid or missing GitHub signature"
                  /\ quiet
             [] sent # NoSignature /\ sent # good ->
                  /\ last.served.status = 400
                  /\ last.served.body = "Invalid GitHub signature"
                  /\ quiet
             [] OTHER ->
                  /\ last.served.status = 204
                  /\ last.served.sigcheck = "match"

\* C3: a request to the verifier that carries the sha1 signature of its raw
\* bytes under the secret is accepted, and one that carries the signature
\* of a body one byte away from its raw bytes is rejected.
C3_RawBytesAreVerified ==
    (/\ Requested
     /\ InsideSomeBlock(last.req.ip)
     /\ last.req.route = "POST /github") =>
        /\ last.req.sig = HubSignature(env.HOOK_SECRET, last.req.raw)
              => last.served.sigcheck = "match"
        /\ (/\ last.req.sig.algo = "sha1="
            /\ last.req.sig.key = env.HOOK_SECRET
            /\ \/ OneByteInserted(last.req.raw, last.req.sig.data)
               \/ OneByteInserted(last.req.sig.data, last.req.raw))
              => last.served.sigcheck # "match"

\* C4: a request from an allowed address whose signature matched is answered
\* 204 whatever the event, the payload and the handler do.
C4_AcceptedIs204 ==
    (/\ Requested
     /\ InsideSomeBlock(last.req.ip)
     /\ last.req.route = "POST /github"
     /\ last.served.sigcheck = "match") =>
        last.served.status = 204

\* C5: an accepted request whose x-github-event names no registered handler
\* (any string, or no header) is answered 204, runs no handler, raises no
\* error and publishes nothing.
C5_UnknownEventIsNoOp ==
    (/\ Requested
     /\ last.served.sigcheck = "match"
     /\ Len(listenersOf(handler, last.req.event)) = 0) =>
        /\ last.served.status = 204
        /\ last.served.invoked = <<>>
        /\ ~last.served.threw
        /\ last.served.posts = <<>>

\* the flag of the event's hook is not the string 'true'
HookOff(name) == name \in SupportedSet /\ env.hooks[name] # "true"

\* C6: a supported event whose flag is not enabled has no handler installed,
\* and over any run no request of that type runs a handler, starts a lookup
\* or publishes, and no lookup belongs to such a request.
C6_DisabledHookIsSilent ==
    /\ \A name \in SupportedSet : HookOff(name) => Len(handler[name]) = 0
    /\ (last.op \in {"request", "lookup"} /\ HookOff(last.req.event)) =>
          /\ last.op = "request"
          /\ last.served.invoked = <<>>
          /\ last.served.gets = <<>>
          /\ last.served.posts = <<>>
    /\ \A t \in BagToSet(lookups) : ~HookOff(t.req.event)

\* an accepted push to develop and an accepted failing status arrive while
\* their hooks are off: each matches a formatting rule
C6_Witness ==
    /\ Requested
    /\ last.served.sigcheck = "match"
    /\ HookOff(last.req.event)
    /\ \/ /\ last.req.event = "push"
          /\ requestBody(last.req).ref = "refs/heads/develop"
       \/ /\ last.req.event = "status"
          /\ requestBody(last.req).state = "failure"
          /\ Len(requestBody(last.req).parents) > 0

\* C7: for a failing status event, a lookup that returns an array whose
\* first state is 'failure' or 'error' publishes exactly one 'BUILD STILL
\* FAILED' note; one that returns [], fails on the network or returns an
\* unparseable body publishes exactly one 'BUILD FAILED' note.
C7_LookupDecidesMessage ==
    (last.op = "lookup") =>
        LET r == last.result
            sha == requestBody(last.req).sha
        IN /\ (r.outcome = "array" /\ Len(r.states) > 0
                 /\ r.states[1] \in {"failure", "error"})
              => last.served.posts
                   = << post(Text("BUILD STILL FAILED", <<sha>>), TRUE) >>
           /\ (\/ r.outcome = "array" /\ Len(r.states) = 0
               \/ r.outcome \in {"neterr", "badjson"})
              => last.served.posts
                   = << post(Text("BUILD FAILED", <<sha>>), TRUE) >>

\* C8: a failing publish POST is caught at its own boundary: the process is
\* never terminated and never holds an unhandled error.
C8_PublishFailureIsContained ==
    proc = "running" /\ last.op # "unhandledRejection"

\* the handler an accepted request is dispatched to, read off the header and
\* the flags alone
ChosenBy(header) ==
    IF header \in SupportedSet /\ env.hooks[header] = "true"
    THEN <<header>>
    ELSE <<>>

\* C9: a request runs at most one handler, the one its x-github-event header
\* names (whatever its payload and whatever came before), and no event name
\* has two handlers.
C9_OneHandlerByHeader ==
    /\ \A name \in DOMAIN handler : Len(handler[name]) <= 1
    /\ Requested =>
          /\ Len(last.served.invoked) <= 1
          /\ last.served.invoked =
                IF last.served.sigcheck = "match"
                THEN ChosenBy(last.req.event)
                ELSE <<>>

\* a handler ran for a request; and a request whose header names no handler
\* while its payload has the shape of an event with one ran none
C9_Witness ==
    /\ Requested
    /\ last.served.sigcheck = "match"
    /\ \/ Len(last.served.invoked) = 1
       \/ /\ last.req.event \notin SupportedSet
          /\ requestBody(last.req).shape \in SupportedSet
          /\ env.hooks[requestBody(last.req).shape] = "true"

\* C10: a pull_request_review event publishes exactly one note, holding the
\* review body, when the body is non-empty and the action is 'submitted';
\* with an empty, null or missing body, or any other action, it publishes
\* nothing.
C10_ReviewNeedsBody ==
    (Requested /\ last.req.event = "pull_request_review") =>
        LET event == requestBody(last.req)
        IN IF /\ last.served.sigcheck = "match"
              /\ env.hooks["pull_request_review"] = "true"
              /\ event.body \notin {Undef, Null, ""}
              /\ event.action = "submitted"
           THEN /\ Len(last.served.posts) = 1
                /\ last.served.posts[1].text.tpl = "Review submitted"
                /\ event.body \in Range(last.served.posts[1].text.args)
           ELSE last.served.posts = <<>>

\* a submitted review with the body "nice" was handled and published once
C10_Witness ==
    /\ Requested
    /\ last.req.event = "pull_request_review"
    /\ last.served.invoked = <<"pull_request_review">>
    /\ requestBody(last.req).body = "nice"
    /\ requestBody(last.req).action = "submitted"
    /\ Len(last.served.posts) = 1


\* the request served last passed both checks and its event's hook is on:
\* its handler is the one that ran
Handled(name) ==
    /\ Requested
    /\ last.req.event = name
    /\ last.served.sigcheck = "match"
    /\ name \in SupportedSet
    /\ env.hooks[name] = "true"

\* C11: a push to a ref other than refs/heads/develop publishes nothing; a
\* push to refs/heads/develop with n commits publishes exactly one note that
\* lists the n commits, one line each, in the reverse of their payload order.
C11_PushListsCommitsReversed ==
    (Requested /\ last.req.event = "push") =>
        LET event == requestBody(last.req)
            n == Len(event.commits)
        IN IF Handled("push") /\ event.ref = "refs/heads/develop"
           THEN /\ Len(last.served.posts) = 1
                /\ last.served.posts[1].text.tpl = "Pushed by"
                /\ Len(last.served.posts[1].text.args) = n
                /\ \A i \in 1..n :
                      last.served.posts[1].text.args[i]
                        = event.commits[n + 1 - i]
           ELSE last.served.posts = <<>>

\* a push of two commits to develop was handled and published
C11_Witness ==
    /\ Handled("push")
    /\ requestBody(last.req).ref = "refs/heads/develop"
    /\ Len(requestBody(last.req).commits) = 2
    /\ Len(last.served.posts) = 1

\* the template a pull_request event selects, if any
PullRequestTemplate(event) ==
    CASE event.action = "closed" /\ event.merged -> "Pull Request Merged!"
      [] event.action = "closed" /\ ~event.merged -> "Pull Request Closed"
      [] event.action = "opened" -> "New Pull Request"
      [] event.action = "reopened" -> "Pull Request Reopened"
      [] OTHER -> Undef

\* C12: a pull_request event with action 'closed' publishes the merged
\* template when merged is true and the closed template when it is false;
\* 'opened' and 'reopened' publish their own templates; any other action
\* publishes nothing.
C12_PullRequestTemplates ==
    (Requested /\ last.req.event = "pull_request") =>
        LET tpl == PullRequestTemplate(requestBody(last.req))
        IN IF Handled("pull_request") /\ tpl # Undef
           THEN /\ Len(last.served.posts) = 1
                /\ last.served.posts[1].text.tpl = tpl
           ELSE last.served.posts = <<>>

\* a closed, unmerged pull request was handled and announced as closed
C12_Witness ==
    /\ Handled("pull_request")
    /\ requestBody(last.req).action = "closed"
    /\ ~requestBody(last.req).merged
    /\ Len(last.served.posts) = 1
    /\ last.served.posts[1].text.tpl = "Pull Request Closed"


\* the request comes from an address inside a block and carries the
\* signature the route computes for it
PassedBothChecks(req) ==
    /\ InsideSomeBlock(req.ip)
    /\ req.sig = HubSignature(env.HOOK_SECRET,
                              JSONstringify(requestBody(req)))

SignatureVerdicts ==
    {"Invalid or missing GitHub signature", "Invalid GitHub signature"}

\* C13: a handler runs and an outbound call (GET or POST) is made only for
\* a request that has passed the address check and then the signature
\* check; the signature is not looked at for an address outside the blocks;
\* every pending or settled lookup belongs to a request that passed both.
C13_ChecksPrecedeDispatch ==
    /\ Requested =>
          /\ (\/ last.served.invoked # <<>>
              \/ last.served.gets # <<>>
              \/ last.served.posts # <<>>) => PassedBothChecks(last.req)
          /\ OutsideAllBlocks(last.req.ip) =>
                /\ last.served.sigcheck = "skipped"
                /\ last.served.body \notin SignatureVerdicts
    /\ \A t \in BagToSet(lookups) : PassedBothChecks(t.req)
    /\ last.op = "lookup" => PassedBothChecks(last.req)

\* a correctly signed failing status from an outside address was refused
\* while the lookup of one from a GitHub address is pending
C13_Witness ==
    /\ Requested
    /\ last.req.event = "status"
    /\ OutsideAllBlocks(last.req.ip)
    /\ last.req.sig = HubSignature(env.HOOK_SECRET, last.req.raw)
    /\ last.served.gets = <<>>
    /\ BagCardinality(lookups) > 0

\* the event types whose handler switches on event.action
ActionSwitched ==
    {"issues", "issue_comment", "release", "pull_request",
     "pull_request_review_comment", "pull_request_review", "discussion",
     "discussion_comment"}

\* the actions a handler has a case for
RecognizedActions(name) ==
    CASE name = "issues" -> {"opened", "closed", "reopened"}
      [] name = "issue_comment" -> {"created"}
      [] name = "release" -> {"published"}
      [] name = "pull_request" -> {"opened", "reopened", "closed"}
      [] name = "pull_request_review_comment" -> {"created"}
      [] name = "pull_request_review" -> {"submitted"}
      [] name = "discussion" -> {"created", "closed", "reopened", "answered"}
      [] name = "discussion_comment" -> {"created"}

\* C14 as stated: for an enabled action-switched event type, an accepted
\* event with an unrecognized action publishes nothing and one with a
\* recognized action publishes exactly once; both are answered 204.
C14_RecognizedActionPublishes ==
    (Requested /\ last.req.event \in ActionSwitched
       /\ Handled(last.req.event)) =>
        /\ last.served.status = 204
        /\ IF requestBody(last.req).action
                \in RecognizedActions(last.req.event)
           THEN Len(last.served.posts) = 1
           ELSE last.served.posts = <<>>

\* C14 amended: as above, except that a pull_request_review whose body is
\* empty, null or absent publishes nothing even when its action is
\* 'submitted'.
C14_RecognizedActionPublishesUnlessNoBody ==
    (Requested /\ last.req.event \in ActionSwitched
       /\ Handled(last.req.event)) =>
        LET event == requestBody(last.req)
        IN /\ last.served.status = 204
           /\ IF /\ event.action \in RecognizedActions(last.req.event)
                 /\ last.req.event = "pull_request_review"
                       => event.body \notin {Undef, Null, ""}
              THEN Len(last.served.posts) = 1
              ELSE last.served.posts = <<>>

\* an edited discussion was handled, acknowledged and not published
C14_Witness ==
    /\ Handled("discussion")
    /\ requestBody(last.req).action = "edited"
    /\ last.served.invoked = <<"discussion">>
    /\ last.served.status = 204
    /\ last.served.posts = <<>>

\* C15: every publish call has visibility 'home', except those of a watch
\* event, which have 'public'; every one sets noExtractMentions and
\* noExtractHashtags.
C15_VisibilityByEvent ==
    (last.op \in {"request", "lookup"}) =>
        \A i \in DOMAIN last.served.posts :
            /\ last.served.posts[i].visibility =
                  IF last.req.event = "watch" THEN "public" ELSE "home"
            /\ last.served.posts[i].noExtractMentions = TRUE
            /\ last.served.posts[i].noExtractHashtags = TRUE

\* a star was handled and published publicly
C15_Witness ==
    /\ Handled("watch")
    /\ Len(last.served.posts) = 1
    /\ last.served.posts[1].visibility = "public"


\* C16: a status event whose state is neither 'failure' nor 'error' starts
\* no lookup and publishes nothing; one whose state is 'failure' or 'error'
\* starts exactly one GET and publishes nothing before that GET has settled.
C16_FailingStatusLooksUpOnce ==
    Handled("status") =>
        IF requestBody(last.req).state \in {"failure", "error"}
        THEN /\ Len(last.served.gets) = 1
             /\ last.served.posts = <<>>
        ELSE /\ last.served.gets = <<>>
             /\ last.served.posts = <<>>

\* C17: the response of an accepted request is decided when the request is
\* served, with its GET or POST still pending, and is 204 for every way the
\* pending calls settle afterwards.
C17_ResponseIgnoresOutbound ==
    /\ (Requested /\ Len(last.served.gets) + Len(last.served.posts) > 0) =>
          /\ last.served.status = 204
          /\ last.served.body = ""
    /\ \A t \in BagToSet(lookups) : t.status = 204 /\ t.body = ""
    /\ last.op = "lookup" => last.served.status = 204

\* the lookup of an answered request failed on the network; its response
\* was 204
C17_Witness ==
    /\ last.op = "lookup"
    /\ last.result.outcome = "neterr"
    /\ last.served.status = 204
    /\ last.served.posts = <<>>

\* publish calls and lookups started by a step
IssuedPosts == IF publishing' > publishing THEN publishing' - publishing ELSE 0
IssuedGets ==
    IF BagCardinality(lookups') > BagCardinality(lookups)
    THEN BagCardinality(lookups') - BagCardinality(lookups)
    ELSE 0

\* A step starts at most one outbound call.  A GET is started only by
\* serving a request that passed both checks; a POST is started either by
\* serving such a request, which then starts no GET, or by settling one
\* pending lookup, which is used up.
C18_Step ==
    /\ IssuedPosts + IssuedGets <= 1
    /\ IssuedGets = 1 =>
          /\ last'.op = "request"
          /\ PassedBothChecks(last'.req)
    /\ IssuedPosts = 1 =>
          \/ /\ last'.op = "request"
             /\ PassedBothChecks(last'.req)
             /\ BagCardinality(lookups') = BagCardinality(lookups)
          \/ /\ last'.op = "lookup"
             /\ BagCardinality(lookups') = BagCardinality(lookups) - 1

\* C18: each request causes at most one publish POST and at most one lookup
\* GET, and the publish calls never outnumber the requests that passed the
\* address check and the signature check: every POST is paid for by one
\* such request, directly or through its one lookup.
C18_AtMostOneCallPerRequest == [][C18_Step]_vars

\* a settled lookup published its one note
C18_Witness ==
    /\ last.op = "lookup"
    /\ Len(last.served.posts) = 1
    /\ publishing >= 1

\* C19: with several failing status events in flight, a lookup that settles
\* publishes at most one note, whose variant follows from its own result and
\* whose text names its own event's commit, whatever else is pending.
C19_LookupsAreIndependent ==
    (last.op = "lookup") =>
        LET sha == requestBody(last.req).sha
            first == IF last.result.outcome = "array"
                        /\ Len(last.result.states) > 0
                     THEN last.result.states[1]
                     ELSE Undef
        IN /\ Len(last.served.posts) <= 1
           /\ \A i \in DOMAIN last.served.posts :
                 /\ last.served.posts[i].text.args = <<sha>>
                 /\ last.served.posts[i].text.tpl =
                       IF first \in {"failure", "error"}
                       THEN "BUILD STILL FAILED"
                       ELSE "BUILD FAILED"

\* the lookup of one commit settled and was published while the lookup of
\* another commit is still pending
C19_Witness ==
    /\ last.op = "lookup"
    /\ Len(last.served.posts) = 1
    /\ \E t \in BagToSet(lookups) :
          requestBody(t.req).sha # requestBody(last.req).sha

\* C20: the registered handlers are exactly the supported events whose flag
\* is the string 'true', one listener each, in every state: no request,
\* handler run or outcome of an outbound call adds or removes one.
C20_RegistryIsFixed ==
    handler = [name \in SupportedSet |->
                  IF env.hooks[name] = "true" THEN <<name>> ELSE <<>>]

\* a handler has run and its lookup has failed, with the hook of push off
C20_Witness ==
    /\ last.op = "lookup"
    /\ last.logged
    /\ env.hooks["push"] # "true"
    /\ Len(handler["push"]) = 0
    /\ Len(handler["status"]) = 1

====
